---- MODULE Spec2Model ----
(***************************************************************************)
(* A model of map_tiles_to_geotiff (src/leafmap/common.py, 9471-9797):     *)
(* the validation of the arguments, the tile grid, the pool of fetch       *)
(* workers with their retry loop, the compositing loop of the calling      *)
(* thread, the crop, the raster write and the post-processing.             *)
(*                                                                         *)
(* Numbers.  Longitudes are whole degrees.  A latitude is given by its     *)
(* Mercator ordinate j, the latitude whose ln(tan(lat)+sec(lat)) is        *)
(* j*pi/4 (j = 0 is the equator, j = 4 is 85.0511 degrees), so that        *)
(* deg2num is exact on the inputs: tile coordinates are fractions num/den. *)
(* A resolution is the fraction <<num, den>> of the zoom-0 resolution      *)
(* 156543.03392804097 m.  Floating-point rounding is not modelled.         *)
(***************************************************************************)
EXTENDS Integers, Sequences, FiniteSets, TLC

\* ------------------------------------------------------------------ values

\* Python's None, and a value that is present.
None == <<>>
Some(v) == <<v>>
IsNone(o) == o = <<>>
Val(o) == o[1]

\* 2**n for n >= 0
RECURSIVE Pow2(_)
Pow2(n) == IF n <= 0 THEN 1 ELSE 2 * Pow2(n - 1)

Min(a, b) == IF a <= b THEN a ELSE b
Max(a, b) == IF a >= b THEN a ELSE b
Abs(a) == IF a >= 0 THEN a ELSE -a

\* math.floor and math.ceil of the fraction num/den, den > 0
Floor(num, den) == num \div den
Ceil(num, den) == -((-num) \div den)

\* ------------------------------------------------------------------ bounds

\* The largest zoom level a caller of Spec passes.
MaxZoom == 2
\* The columns of the two-row grid of SpecPool.
PoolColumns == 3
\* Resolutions are the fractions n/d of the zoom-0 resolution with n, d in 1..MaxRes.
MaxRes == 4

\* ------------------------------------------------------------- constants

\* concurrent.futures.ThreadPoolExecutor(5)
PoolSize == 5
\* retry = 3 in get_tile
Retry == 3

\* ---------------------------------------------------------------- sources

\* The value passed as source that is not a string.
NotAString == "<int 42>"
BuiltinNames == {"OPENSTREETMAP", "ROADMAP", "SATELLITE", "TERRAIN", "HYBRID"}
BasemapNames == {"Esri.WorldImagery"}
UrlTemplate == "https://tile.example/{z}/{x}/{y}.png"
SourceArgs == {"OpenStreetMap", "SATELLITE", UrlTemplate, "Esri.WorldImagery", "FooBar", NotAString}

\* str.upper() on the names used here
Upper(s) ==
  CASE s = "OpenStreetMap" -> "OPENSTREETMAP"
    [] s = "Esri.WorldImagery" -> "ESRI.WORLDIMAGERY"
    [] s = "FooBar" -> "FOOBAR"
    [] s = UrlTemplate -> "HTTPS://TILE.EXAMPLE/{Z}/{X}/{Y}.PNG"
    [] s = "epsg:3857" -> "EPSG:3857"
    [] s = "epsg:4326" -> "EPSG:4326"
    [] OTHER -> s

IsStr(s) == s # NotAString
\* str.startswith("http")
StartsWithHttp(s) ==
  s \in {UrlTemplate, "https://tile.openstreetmap.org/{z}/{x}/{y}.png",
         "https://mt1.google.com/vt/lyrs=s&x={x}&y={y}&z={z}",
         "https://server.arcgisonline.com/{z}/{y}/{x}"}
\* Whether the string has the replacement fields {z}, {x}, {y}.
HasFields(s) == StartsWithHttp(s)

\* xyz_tiles[name]["url"]
XyzTilesUrl(name) ==
  CASE name = "OPENSTREETMAP" -> "https://tile.openstreetmap.org/{z}/{x}/{y}.png"
    [] OTHER -> "https://mt1.google.com/vt/lyrs=s&x={x}&y={y}&z={z}"

\* basemap_xyz_tiles()[name].url
BasemapUrl(name) == "https://server.arcgisonline.com/{z}/{y}/{x}"

\* The source after lines 9557-9568: [raise |-> TRUE] for the ValueError, else the
\* rebound source.  A string that is no built-in name, no URL and no basemap name
\* falls through the third branch unchanged.
ResolveSourceValue(s) ==
  IF IsStr(s) /\ Upper(s) \in BuiltinNames
    THEN [raise |-> FALSE, source |-> XyzTilesUrl(Upper(s))]
  ELSE IF IsStr(s) /\ StartsWithHttp(s)
    THEN [raise |-> FALSE, source |-> s]
  ELSE IF IsStr(s)
    THEN [raise |-> FALSE, source |-> IF s \in BasemapNames THEN BasemapUrl(s) ELSE s]
  ELSE [raise |-> TRUE, source |-> s]

\* ------------------------------------------------------- zoom and resolution

\* The largest k >= 0 with 2^k * a <= b, for b >= a > 0: floor(log2(b/a))
RECURSIVE FloorLog2(_, _)
FloorLog2(a, b) == IF 2 * a <= b THEN 1 + FloorLog2(2 * a, b) ELSE 0

\* resolution_to_zoom_level that rounds the zoom level up instead of truncating it.
resolution_to_zoom_level_ceil(r) ==
  IF r[2] >= r[1]
    THEN FloorLog2(r[1], r[2]) + (IF Pow2(FloorLog2(r[1], r[2])) * r[1] = r[2] THEN 0 ELSE 1)
    ELSE -FloorLog2(r[2], r[1])

\* resolution_to_zoom_level: int(math.log2(initial_resolution / resolution)), the
\* resolution being r[1]/r[2] of the initial one.  int() truncates toward zero.
resolution_to_zoom_level(r) ==
  IF r[2] >= r[1] THEN FloorLog2(r[1], r[2]) ELSE -FloorLog2(r[2], r[1])

\* zoom_level_to_resolution: initial_resolution / 2**zoom, as a fraction of it
zoom_level_to_resolution(z) ==
  IF z >= 0 THEN <<1, Pow2(z)>> ELSE <<Pow2(-z), 1>>

\* ZoomResolutionValue without the second branch: zoom and resolution both given
\* is let through, and the resolution is overwritten.
ZoomResolutionNoBoth(z, r) ==
  IF IsNone(z) /\ IsNone(r)
    THEN [raise |-> TRUE, msg |-> "Either zoom or resolution must be provided", zoom |-> z, resolution |-> r]
  ELSE IF IsNone(z) /\ ~IsNone(r)
    THEN [raise |-> FALSE, msg |-> "", zoom |-> Some(resolution_to_zoom_level(Val(r))), resolution |-> r]
  ELSE [raise |-> FALSE, msg |-> "", zoom |-> z, resolution |-> Some(zoom_level_to_resolution(Val(z)))]

\* The four branches of lines 9602-9612 on the arguments zoom and resolution.
ZoomResolutionValue(z, r) ==
  IF IsNone(z) /\ IsNone(r)
    THEN [raise |-> TRUE, msg |-> "Either zoom or resolution must be provided", zoom |-> z, resolution |-> r]
  ELSE IF ~IsNone(z) /\ ~IsNone(r)
    THEN [raise |-> TRUE, msg |-> "Only one of zoom or resolution can be provided", zoom |-> z, resolution |-> r]
  ELSE IF IsNone(z) /\ ~IsNone(r)
    THEN [raise |-> FALSE, msg |-> "", zoom |-> Some(resolution_to_zoom_level(Val(r))), resolution |-> r]
  ELSE [raise |-> FALSE, msg |-> "", zoom |-> z, resolution |-> Some(zoom_level_to_resolution(Val(z)))]

\* -------------------------------------------------------------- tile grid

\* isinstance(bbox, list) and len(bbox) == 4
BboxIsList4(b) == Len(b) = 4

\* deg2num: xtile = (lon + 180) / 360 * n and
\* ytile = (1 - ln(tan(lat) + sec(lat)) / pi) / 2 * n with n = 2**zoom, as the
\* numerators of fractions over XDen(zoom) and YDen(zoom).
XDen(zoom) == IF zoom >= 0 THEN 360 ELSE 360 * Pow2(-zoom)
YDen(zoom) == IF zoom >= 0 THEN 8 ELSE 8 * Pow2(-zoom)
deg2numX(lon, zoom) == (lon + 180) * Pow2(zoom)
deg2numY(latj, zoom) == (4 - latj) * Pow2(zoom)

\* Product over ranges that are never empty: an empty range is taken as the one
\* tile at its lower end.
ProductNonEmpty(xa, xb, ya, yb) ==
  LET w == Max(xb - xa, 1)
      h == Max(yb - ya, 1)
  IN [k \in 1..(w * h) |-> <<xa + ((k - 1) \div h), ya + ((k - 1) % h)>>]

\* Product over ranges that include their upper ends.
ProductInclusive(xa, xb, ya, yb) ==
  LET w == Max(xb + 1 - xa, 0)
      h == Max(yb + 1 - ya, 0)
  IN [k \in 1..(w * h) |-> <<xa + ((k - 1) \div h), ya + ((k - 1) % h)>>]

\* Lines 9722-9732 and 9739 of draw_tile(source, lat0, lon0, lat1, lon1, zoom, ...),
\* called with (south, west, north, east): the sorted fractional corners, the
\* integer bbox and the tile indices in the order of itertools.product.
RECURSIVE Product(_, _, _, _)
Product(xa, xb, ya, yb) ==
  IF xa >= xb THEN <<>>
  ELSE [i \in 1..Max(yb - ya, 0) |-> <<xa, ya + i - 1>>] \o Product(xa + 1, xb, ya, yb)

TileGrid(b, zoom) ==
  LET xa == deg2numX(b[1], zoom)
      ya == deg2numY(b[2], zoom)
      xb == deg2numX(b[3], zoom)
      yb == deg2numY(b[4], zoom)
      x0 == Min(xa, xb)
      x1 == Max(xa, xb)
      y0 == Min(ya, yb)
      y1 == Max(ya, yb)
      bx0 == Floor(x0, XDen(zoom))
      by0 == Floor(y0, YDen(zoom))
      bx1 == Ceil(x1, XDen(zoom))
      by1 == Ceil(y1, YDen(zoom))
  IN [x0 |-> x0, y0 |-> y0, x1 |-> x1, y1 |-> y1,
      xden |-> XDen(zoom), yden |-> YDen(zoom),
      bbox |-> <<bx0, by0, bx1, by1>>,
      corners |-> Product(bx0, bx1, by0, by1)]

\* ----------------------------------------------------------------- images

\* A decoded tile is a solid image: its mode, whether its three colour bands are 0
\* everywhere, its alpha band ("none" when the mode has none, else the value it
\* has everywhere: "zero", "half" or "full"), and its pixel size.
Img(mode, rgbZero, alpha, size) ==
  [mode |-> mode, rgbZero |-> rgbZero, alpha |-> alpha, size |-> size]

\* Image.convert: RGB gains an opaque alpha band, RGBA loses its alpha band, a
\* palette image with transparency becomes RGBA.
Convert(im, mode) ==
  IF im.mode = mode THEN im
  ELSE IF mode = "RGB" THEN Img("RGB", im.rgbZero, "none", im.size)
  ELSE Img("RGBA", im.rgbZero, IF im.alpha = "none" THEN "full" ELSE im.alpha, im.size)

\* is_empty: with an alpha band that is 0 everywhere the image is empty; else it
\* is empty when the extrema of the first three bands are all (0, 0).
is_empty(im) ==
  IF im.alpha # "none" /\ im.alpha = "zero" THEN TRUE ELSE im.rgbZero

\* ---------------------------------------------------------------- get_tile

\* What one SESSION.get yields: a response (status, body) or an exception.  The
\* body is None for zero bytes, else the image the bytes decode to.
Response(status, body) == [exc |-> FALSE, status |-> status, body |-> body]
TransportError == [exc |-> TRUE, status |-> 0, body |-> None]

\* A URL without a scheme makes SESSION.get raise before anything is sent.
UrlIsValid(url) == StartsWithHttp(url[1])

\* source.format(z=zoom, x=x, y=y): a template without fields is left as it is.
Format(template, z, x, y) ==
  IF HasFields(template) THEN <<template, z, x, y>> ELSE <<template>>

\* GetTileReturn that looks at the status before the body: only a 404 or a
\* success without a body is an absent tile.
GetTileReturnStatusFirst(r) ==
  IF r.status = 404 THEN [raise |-> FALSE, value |-> None]
  ELSE IF r.status >= 400 THEN [raise |-> TRUE, value |-> None]
  ELSE IF IsNone(r.body) THEN [raise |-> FALSE, value |-> None]
  ELSE [raise |-> FALSE, value |-> r.body]

\* GetTileReturn without the test for 404: raise_for_status raises for it.
GetTileReturnNo404(r) ==
  IF IsNone(r.body) THEN [raise |-> FALSE, value |-> None]
  ELSE IF r.status >= 400 THEN [raise |-> TRUE, value |-> None]
  ELSE [raise |-> FALSE, value |-> r.body]

\* Lines 9712-9717: what get_tile does with the response it received.
GetTileReturn(r) ==
  IF r.status = 404 THEN [raise |-> FALSE, value |-> None]
  ELSE IF IsNone(r.body) THEN [raise |-> FALSE, value |-> None]
  ELSE IF r.status >= 400 THEN [raise |-> TRUE, value |-> None]
  ELSE [raise |-> FALSE, value |-> r.body]

\* RetryExhausted that gives up one exception later.
RetryExhaustedLate(retry) == retry - 1 < 0

\* Lines 9708-9711: after an exception of SESSION.get, retry counted down from
\* `retry`: TRUE when the exception is re-raised.
RetryExhausted(retry) == retry - 1 = 0

\* A future of the executor.
NewFuture(url) ==
  [st |-> "queued", url |-> url, tries |-> 0, retry |-> Retry,
   raised |-> FALSE, exc |-> "", value |-> None, status |-> 0, empty |-> FALSE]

\* WorkerAvailable of an executor that starts a thread for every task.
WorkerAlwaysAvailable(futs) == TRUE

\* ThreadPoolExecutor(5): a queued task starts when fewer than 5 workers are busy.
WorkerAvailable(futs) ==
  Cardinality({i \in 1..Len(futs) : futs[i].st = "running"}) < PoolSize

\* The work queue is first in, first out: the queued task submitted first.
QueueHead(futs) ==
  LET q == {i \in 1..Len(futs) : futs[i].st = "queued"}
  IN IF q = {} THEN 0 ELSE CHOOSE i \in q : \A j \in q : i <= j

\* --------------------------------------------------------------- paste_tile

\* Image.new(mode, size): nothing pasted yet (black, and transparent for RGBA).
NewCanvas(mode, size) == [mode |-> mode, size |-> size, pastes |-> <<>>]

\* Image.paste(im, xy0): the pasted image is converted to the canvas mode.
Paste(canvas, im, xy0) ==
  [canvas EXCEPT !.pastes = Append(@, [xy |-> xy0, im |-> Convert(im, canvas.mode)])]

\* paste_tile that pastes at the tile index times the tile size, not at the
\* index relative to the bbox.
paste_tile_absolute(bigim, base_size, tile, corner_xy, bbox) ==
  IF IsNone(tile) THEN [bigim |-> bigim, base_size |-> base_size]
  ELSE
    LET im == Val(tile)
        mode == IF im.mode = "RGB" THEN "RGB" ELSE "RGBA"
        size == im.size
        newim == IF IsNone(bigim)
                   THEN NewCanvas(mode, <<size[1] * (bbox[3] - bbox[1]),
                                          size[2] * (bbox[4] - bbox[2])>>)
                   ELSE Val(bigim)
        bs == IF IsNone(bigim) THEN size ELSE base_size
        xy0 == <<size[1] * Abs(corner_xy[1]), size[2] * Abs(corner_xy[2])>>
        conv == Convert(im, mode)
    IN IF mode = "RGB"
         THEN [bigim |-> Some(Paste(newim, im, xy0)), base_size |-> bs]
       ELSE IF ~is_empty(conv)
         THEN [bigim |-> Some(Paste(newim, conv, xy0)), base_size |-> bs]
       ELSE [bigim |-> Some(newim), base_size |-> bs]

\* paste_tile that sizes the canvas by base_size as it was passed in, not by the
\* size of the tile in hand.
paste_tile_base_size(bigim, base_size, tile, corner_xy, bbox) ==
  IF IsNone(tile) THEN [bigim |-> bigim, base_size |-> base_size]
  ELSE
    LET im == Val(tile)
        mode == IF im.mode = "RGB" THEN "RGB" ELSE "RGBA"
        size == im.size
        newim == IF IsNone(bigim)
                   THEN NewCanvas(mode, <<base_size[1] * (bbox[3] - bbox[1]),
                                          base_size[2] * (bbox[4] - bbox[2])>>)
                   ELSE Val(bigim)
        dx == Abs(corner_xy[1] - bbox[1])
        dy == Abs(corner_xy[2] - bbox[2])
        xy0 == <<size[1] * dx, size[2] * dy>>
        conv == Convert(im, mode)
    IN IF mode = "RGB"
         THEN [bigim |-> Some(Paste(newim, im, xy0)), base_size |-> base_size]
       ELSE IF ~is_empty(conv)
         THEN [bigim |-> Some(Paste(newim, conv, xy0)), base_size |-> base_size]
       ELSE [bigim |-> Some(newim), base_size |-> base_size]

\* paste_tile(bigim, base_size, tile, corner_xy, bbox), lines 9661-9687.  `mode`
\* is the mode of the tile, not of the canvas.
paste_tile(bigim, base_size, tile, corner_xy, bbox) ==
  IF IsNone(tile) THEN [bigim |-> bigim, base_size |-> base_size]
  ELSE
    LET im == Val(tile)
        mode == IF im.mode = "RGB" THEN "RGB" ELSE "RGBA"
        size == im.size
        newim == IF IsNone(bigim)
                   THEN NewCanvas(mode, <<size[1] * (bbox[3] - bbox[1]),
                                          size[2] * (bbox[4] - bbox[2])>>)
                   ELSE Val(bigim)
        bs == IF IsNone(bigim) THEN size ELSE base_size
        dx == Abs(corner_xy[1] - bbox[1])
        dy == Abs(corner_xy[2] - bbox[2])
        xy0 == <<size[1] * dx, size[2] * dy>>
        conv == Convert(im, mode)
    IN IF mode = "RGB"
         THEN [bigim |-> Some(Paste(newim, im, xy0)), base_size |-> bs]
       ELSE IF ~is_empty(conv)
         THEN [bigim |-> Some(Paste(newim, conv, xy0)), base_size |-> bs]
       ELSE [bigim |-> Some(newim), base_size |-> bs]

\* ----------------------------------------------------------- finish_picture

\* Python's round() of num/den: to the nearest integer, a half to the even one.
Round(num, den) ==
  LET q == Floor(num, den)
      r == num - q * den
  IN IF 2 * r < den THEN q
     ELSE IF 2 * r > den THEN q + 1
     ELSE IF q % 2 = 0 THEN q ELSE q + 1

\* The crop box of lines 9690-9696: (x2, y2, x2 + imgw, y2 + imgh).
CropBox(base_size, g) ==
  LET x2 == Round(base_size[1] * (g.x0 - g.bbox[1] * g.xden), g.xden)
      y2 == Round(base_size[2] * (g.y0 - g.bbox[2] * g.yden), g.yden)
      imgw == Round(base_size[1] * (g.x1 - g.x0), g.xden)
      imgh == Round(base_size[2] * (g.y1 - g.y0), g.yden)
  IN <<x2, y2, x2 + imgw, y2 + imgh>>

\* The last image pasted over the pixel (px, py) of the canvas, None if there is none.
RECURSIVE TopPaste(_, _, _, _)
TopPaste(pastes, n, px, py) ==
  IF n = 0 THEN None
  ELSE LET p == pastes[n]
       IN IF /\ p.xy[1] <= px /\ px < p.xy[1] + p.im.size[1]
             /\ p.xy[2] <= py /\ py < p.xy[2] + p.im.size[2]
            THEN Some(p.im)
          ELSE TopPaste(pastes, n - 1, px, py)

\* The alpha values found in the box of an RGBA canvas.  Tiles are solid, so one
\* pixel per paste and per gap decides: the pixels at the corners of the pastes
\* and of the box.
AlphaIn(canvas, box) ==
  LET xs == {box[1]} \cup {p \in {canvas.pastes[i].xy[1] : i \in 1..Len(canvas.pastes)}
                            \cup {canvas.pastes[i].xy[1] + canvas.pastes[i].im.size[1]
                                  : i \in 1..Len(canvas.pastes)}
                           : box[1] <= p /\ p < box[3]}
      ys == {box[2]} \cup {p \in {canvas.pastes[i].xy[2] : i \in 1..Len(canvas.pastes)}
                            \cup {canvas.pastes[i].xy[2] + canvas.pastes[i].im.size[2]
                                  : i \in 1..Len(canvas.pastes)}
                           : box[2] <= p /\ p < box[4]}
      at(px, py) ==
        LET t == TopPaste(canvas.pastes, Len(canvas.pastes), px, py)
        IN IF /\ 0 <= px /\ px < canvas.size[1] /\ 0 <= py /\ py < canvas.size[2]
              /\ ~IsNone(t)
             THEN Val(t).alpha
           ELSE "zero"
  IN IF box[1] >= box[3] \/ box[2] >= box[4] THEN {}
     ELSE {at(px, py) : px \in xs, py \in ys}

\* finish_picture that answers a missing canvas with a blank image of the size
\* of the crop box.
finish_picture_blank(bigim, base_size, g) ==
  LET box == CropBox(base_size, g)
  IN [raise |-> FALSE,
      img |-> Some([mode |-> "RGBA", size |-> <<box[3] - box[1], box[4] - box[2]>>,
                    box |-> box])]

\* finish_picture that returns the crop in the mode of the canvas.
finish_picture_keep_mode(bigim, base_size, g) ==
  IF IsNone(bigim) THEN [raise |-> TRUE, img |-> None]
  ELSE
    LET box == CropBox(base_size, g)
    IN [raise |-> FALSE,
        img |-> Some([mode |-> Val(bigim).mode,
                      size |-> <<box[3] - box[1], box[4] - box[2]>>,
                      box |-> box])]

\* finish_picture(bigim, base_size, bbox, x0, y0, x1, y1), lines 9689-9700.  With
\* bigim None, bigim.crop raises AttributeError.  The result is the cropped image:
\* its mode, its size and the box it was cut from.
finish_picture(bigim, base_size, g) ==
  IF IsNone(bigim) THEN [raise |-> TRUE, img |-> None]
  ELSE
    LET box == CropBox(base_size, g)
        canvas == Val(bigim)
        opaque == canvas.mode = "RGBA" /\ AlphaIn(canvas, box) = {"full"}
    IN [raise |-> FALSE,
        img |-> Some([mode |-> IF opaque THEN "RGB" ELSE canvas.mode,
                      size |-> <<box[3] - box[1], box[4] - box[2]>>,
                      box |-> box])]

\* len(img.getbands())
Bands(img) == IF img.mode = "RGB" THEN 3 ELSE 4

\* NeedsReproject without upper().
NeedsReprojectCaseSensitive(crs) == crs # "EPSG:3857"

\* crs.upper() != "EPSG:3857", line 9792
NeedsReproject(crs) == Upper(crs) # "EPSG:3857"

\* ------------------------------------------------------------ georeference

\* from4326_to3857(lat, lon), lines 9635-9640, in units of 6378137 * pi / 180 m:
\* x is the longitude in degrees and y is 180/pi * ln(tan(45 + lat/2)), which is
\* 45 * j for the latitude of Mercator ordinate j.
from4326_to3857(latj, lon) == <<lon, 45 * latj>>

\* GeoTransform whose origin is the first corner given, whatever the order.
GeoTransformFirstCorner(bbox, size) ==
  LET p0 == from4326_to3857(bbox[2], bbox[1])
      p1 == from4326_to3857(bbox[4], bbox[3])
  IN [x |-> p0[1], pwidth |-> <<Abs(p1[1] - p0[1]), size[1]>>,
      y |-> p0[2], pheight |-> <<Abs(p1[2] - p0[2]), size[2]>>]

\* Lines 9773-9777: gtiff.SetGeoTransform((min(xp0, xp1), pwidth, 0, max(yp0, yp1),
\* 0, -pheight)), for the image of the given size.  pwidth and pheight are the
\* fractions <<numerator, denominator>>; the row and column rotations are 0.
GeoTransform(bbox, size) ==
  LET p0 == from4326_to3857(bbox[2], bbox[1])
      p1 == from4326_to3857(bbox[4], bbox[3])
  IN [x |-> Min(p0[1], p1[1]), pwidth |-> <<Abs(p1[1] - p0[1]), size[1]>>,
      y |-> Max(p0[2], p1[2]), pheight |-> <<Abs(p1[2] - p0[2]), size[2]>>]

\* ------------------------------------------------------------------ state

VARIABLES
  args,        \* the arguments of the call: source, bbox, zoom, resolution, crs, to_cog, quiet
  server,      \* what a request to the tile service can yield during this call
  pc,          \* where the calling thread is
  err,         \* the exception the call ended with
  source,      \* the local source, rebound by lines 9557-9568
  zoom,        \* the local zoom, rebound by line 9609
  resolution,  \* the local resolution, rebound by line 9612
  grid,        \* x0, y0, x1, y1, bbox and corners of draw_tile
  futures,     \* the futures of the executor, in submission order
  consumed,    \* the futures the compositing loop has taken the result of, in order
  pending,     \* the exception travelling out of the with block
  bigim,       \* the canvas
  base_size,   \* base_size of draw_tile
  printed,     \* what print() has written
  img,         \* the image finish_picture returned
  file,        \* the output raster on disk, and the steps that failed on it
  post         \* how often reproject and image_to_cog have run

vars == <<args, server, pc, err, source, zoom, resolution, grid, futures,
          consumed, pending, bigim, base_size, printed, img, file, post>>

NoErr == [type |-> "", cause |-> ""]
NoGrid == [x0 |-> 0, y0 |-> 0, x1 |-> 0, y1 |-> 0, xden |-> 1, yden |-> 1,
           bbox |-> <<0, 0, 0, 0>>, corners |-> <<>>]
NoFile == [created |-> FALSE, flushed |-> FALSE, size |-> <<0, 0>>, bands |-> 0,
           zoom_level |-> None, resolution_m |-> None, geotransform |-> None,
           failed |-> <<>>]

\* ------------------------------------------------------------------ inputs

\* The tile size of the service.
TileSize == <<256, 256>>

ImgRGB == Img("RGB", FALSE, "none", TileSize)
ImgRGBA == Img("RGBA", FALSE, "half", TileSize)

\* The answers of a tile service: tiles, an empty body, not found, a server error.
Answers ==
  {Response(200, Some(ImgRGB)), Response(200, Some(ImgRGBA)), Response(200, None),
   Response(404, Some("Not Found")), Response(500, Some("Internal Server Error")),
   TransportError}

Lons == {-45, 0, 45}
LatJs == {0, 1}
BboxArgs == {<<w, s, e, n>> : w \in Lons, s \in LatJs, e \in Lons, n \in LatJs} \cup {<<0, 0, 45>>}
ZoomArgs == {None} \cup {Some(z) : z \in 0..MaxZoom}
ResolutionArgs == {None, Some(<<1, 2>>), Some(<<2, 1>>)}

Args(sources, bboxes, zooms, resolutions, crss, cogs, quiets) ==
  [source : sources, bbox : bboxes, zoom : zooms, resolution : resolutions,
   crs : crss, to_cog : cogs, quiet : quiets]

\* Any source, bbox, zoom and resolution, on grids of at most two tiles.
ValidationArgs ==
  Args({"OpenStreetMap", UrlTemplate, "Esri.WorldImagery", "FooBar", NotAString},
       BboxArgs, ZoomArgs, ResolutionArgs, {"EPSG:3857"}, {FALSE}, {FALSE})

\* Every way of post-processing and of reporting, on a grid of two tiles.
PostArgs ==
  Args({UrlTemplate}, {<<-45, 0, 45, 1>>}, {Some(1)}, {None},
       {"EPSG:3857", "epsg:3857", "EPSG:4326"}, BOOLEAN, BOOLEAN)

\* A wide bbox: a row of three tiles at zoom 2.
WideArgs ==
  Args({UrlTemplate}, {<<-45, 0, 135, 1>>}, {Some(2)}, {None},
       {"epsg:4326"}, {TRUE}, {FALSE})

SpecArgs == ValidationArgs \cup PostArgs \cup WideArgs

InitWith(A, S) ==
  /\ args \in A
  /\ server = S
  /\ pc = "source"
  /\ err = NoErr
  /\ source = args.source
  /\ zoom = args.zoom
  /\ resolution = args.resolution
  /\ grid = NoGrid
  /\ futures = <<>>
  /\ consumed = <<>>
  /\ pending = ""
  /\ bigim = None
  /\ base_size = <<256, 256>>
  /\ printed = <<>>
  /\ img = None
  /\ file = NoFile
  /\ post = [reproject |-> 0, cog |-> 0]

Init == InitWith(SpecArgs, Answers)

\* ----------------------------------------------------------- calling thread

\* Raise of a call that logs the exception and returns.
RaiseLogged(type, cause) == pc' = "returned" /\ UNCHANGED err

\* raise ValueError(...) before the try block, raise Exception(e) in the except
\* clause of line 9796: the call ends with the exception.
Raise(type, cause) == pc' = "raised" /\ err' = [type |-> type, cause |-> cause]

\* Lines 9557-9568.
ResolveSource ==
  /\ pc = "source"
  /\ LET r == ResolveSourceValue(source)
     IN IF r.raise
          THEN Raise("ValueError", "source") /\ UNCHANGED source
          ELSE pc' = "bbox" /\ source' = r.source /\ UNCHANGED err
  /\ UNCHANGED <<args, server, zoom, resolution, grid, futures, consumed, pending,
                 bigim, base_size, printed, img, file, post>>

\* Lines 9595-9600.
CheckBbox ==
  /\ pc = "bbox"
  /\ IF BboxIsList4(args.bbox)
       THEN pc' = "zoom" /\ UNCHANGED err
       ELSE Raise("ValueError", "bbox")
  /\ UNCHANGED <<args, server, source, zoom, resolution, grid, futures, consumed,
                 pending, bigim, base_size, printed, img, file, post>>

\* Lines 9602-9612.
CheckZoom ==
  /\ pc = "zoom"
  /\ LET r == ZoomResolutionValue(zoom, resolution)
     IN IF r.raise
          THEN Raise("ValueError", "zoom") /\ UNCHANGED <<zoom, resolution>>
          ELSE pc' = "grid" /\ zoom' = r.zoom /\ resolution' = r.resolution /\ UNCHANGED err
  /\ UNCHANGED <<args, server, source, grid, futures, consumed, pending, bigim,
                 base_size, printed, img, file, post>>

\* draw_tile(source, south, west, north, east, zoom, ...), lines 9722-9733.
ComputeGrid ==
  /\ pc = "grid"
  /\ grid' = TileGrid(args.bbox, Val(zoom))
  /\ pc' = "submit"
  /\ UNCHANGED <<args, server, err, source, zoom, resolution, futures, consumed,
                 pending, bigim, base_size, printed, img, file, post>>

\* Lines 9735-9741: one executor.submit per turn of the loop, then the set-up of
\* the compositing loop.
Submit ==
  /\ pc = "submit"
  /\ IF Len(futures) < Len(grid.corners)
       THEN LET c == grid.corners[Len(futures) + 1]
            IN /\ futures' = Append(futures, NewFuture(Format(source, Val(zoom), c[1], c[2])))
               /\ UNCHANGED <<pc, bigim, base_size>>
       ELSE /\ pc' = "composite"
            /\ bigim' = None
            /\ base_size' = <<256, 256>>
            /\ UNCHANGED futures
  /\ UNCHANGED <<args, server, err, source, zoom, resolution, grid, consumed, pending,
                 printed, img, file, post>>

\* NextFuture of a loop over as_completed(futures): any future not yet taken.
NextFutureAsCompleted(futs, taken) ==
  {i \in 1..Len(futs) : \A j \in 1..Len(taken) : taken[j] # i}

\* The future the compositing loop takes next: zip(futures, corners) in order.
NextFuture(futs, taken) == {Len(taken) + 1}

\* ResultReady of a future whose result never arrives.
ResultReadyNever(fut) == FALSE

\* ResultReady of a loop that does not wait for the future.
ResultReadyAtOnce(fut) == TRUE

\* fut.result() returns or raises once the future is done.
ResultReady(fut) == fut.st = "done"

\* Say that prints whatever quiet is.
SayAlways(quiet, out, msg) == Append(out, msg)

\* if not quiet: print(msg), lines 9744-9748 and 9786-9787.
Say(quiet, out, msg) == IF quiet THEN out ELSE Append(out, msg)

\* Lines 9742-9745: one turn of the compositing loop, or its end.
Composite ==
  /\ pc = "composite"
  /\ IF Len(consumed) = Len(futures)
       THEN /\ pc' = "exitpool"
            /\ UNCHANGED <<consumed, pending, bigim, base_size, printed>>
       ELSE \E i \in NextFuture(futures, consumed) :
              /\ ResultReady(futures[i])
              /\ consumed' = Append(consumed, i)
              /\ IF futures[i].raised
                   THEN /\ pending' = futures[i].exc
                        /\ pc' = "exitpool"
                        /\ UNCHANGED <<bigim, base_size, printed>>
                   ELSE LET r == paste_tile(bigim, base_size, futures[i].value,
                                            grid.corners[i], grid.bbox)
                        IN /\ bigim' = r.bigim
                           /\ base_size' = r.base_size
                           /\ printed' = Say(args.quiet, printed,
                                             <<"Downloaded image", Len(consumed) + 1, Len(grid.corners)>>)
                           /\ UNCHANGED <<pc, pending>>
  /\ UNCHANGED <<args, server, err, source, zoom, resolution, grid, futures, img, file, post>>

\* ExitPool of an executor that is shut down without waiting for its tasks.
ExitPoolNoWait ==
  /\ pc = "exitpool"
  /\ IF pending # ""
       THEN Raise("Exception", pending)
       ELSE pc' = "finish" /\ UNCHANGED err
  /\ UNCHANGED <<args, server, source, zoom, resolution, grid, futures, consumed,
                 pending, bigim, base_size, printed, img, file, post>>

\* The end of the with block, line 9734: shutdown(wait=True) returns when every
\* submitted task has run; an exception of the block then leaves the try block
\* of line 9790 as Exception(e).
ExitPool ==
  /\ pc = "exitpool"
  /\ \A i \in 1..Len(futures) : futures[i].st = "done"
  /\ IF pending # ""
       THEN Raise("Exception", pending)
       ELSE pc' = "finish" /\ UNCHANGED err
  /\ UNCHANGED <<args, server, source, zoom, resolution, grid, futures, consumed,
                 pending, bigim, base_size, printed, img, file, post>>

\* Lines 9747-9750.
FinishPicture ==
  /\ pc = "finish"
  /\ printed' = Say(args.quiet, printed, <<"Saving GeoTIFF. Please wait...">>)
  /\ LET r == finish_picture(bigim, base_size, grid)
     IN IF r.raise
          THEN Raise("Exception", "finish_picture") /\ UNCHANGED img
          ELSE pc' = "create" /\ img' = r.img /\ UNCHANGED err
  /\ UNCHANGED <<args, server, source, zoom, resolution, grid, futures, consumed,
                 pending, bigim, base_size, file, post>>

\* Lines 9751-9769: driver.Create.  GDAL refuses a raster without pixels, and the
\* disk or the path may refuse any.
CreateFile ==
  /\ pc = "create"
  /\ \E ok \in BOOLEAN :
       IF ok /\ Val(img).size[1] > 0 /\ Val(img).size[2] > 0
         THEN /\ file' = [file EXCEPT !.created = TRUE, !.size = Val(img).size,
                                      !.bands = Bands(Val(img))]
              /\ pc' = "write"
              /\ UNCHANGED err
         ELSE /\ file' = [file EXCEPT !.failed = Append(@, "create")]
              /\ Raise("Exception", "create")
  /\ UNCHANGED <<args, server, source, zoom, resolution, grid, futures, consumed,
                 pending, bigim, base_size, printed, img, post>>

\* Lines 9771-9788: the metadata, the bands, FlushCache, the last message.
WriteRaster ==
  /\ pc = "write"
  /\ \E ok \in BOOLEAN :
       IF ok
         THEN /\ file' = [file EXCEPT !.flushed = TRUE, !.zoom_level = zoom,
                                      !.resolution_m = resolution,
                                      !.geotransform = Some(GeoTransform(args.bbox, file.size))]
              /\ printed' = Say(args.quiet, printed, <<"Image saved to">>)
              /\ pc' = "post"
              /\ UNCHANGED err
         ELSE /\ file' = [file EXCEPT !.zoom_level = zoom, !.resolution_m = resolution,
                                      !.failed = Append(@, "write")]
              /\ Raise("Exception", "write")
              /\ UNCHANGED printed
  /\ UNCHANGED <<args, server, source, zoom, resolution, grid, futures, consumed,
                 pending, bigim, base_size, img, post>>

\* Lines 9792-9795: which post-processing the call runs.
PostProcess ==
  /\ pc = "post"
  /\ pc' = IF NeedsReproject(args.crs) THEN "reproject"
           ELSE IF args.to_cog THEN "cog" ELSE "returned"
  /\ UNCHANGED <<args, server, err, source, zoom, resolution, grid, futures, consumed,
                 pending, bigim, base_size, printed, img, file, post>>

\* reproject(image=output, output=output, dst_crs=crs, to_cog=to_cog), lines
\* 6124-6178: the warp, then image_to_cog when to_cog.
Reproject ==
  /\ pc = "reproject"
  /\ post' = [post EXCEPT !.reproject = @ + 1]
  /\ \E ok \in BOOLEAN :
       IF ok
         THEN pc' = (IF args.to_cog THEN "cog" ELSE "returned") /\ UNCHANGED <<err, file>>
         ELSE /\ file' = [file EXCEPT !.failed = Append(@, "reproject")]
              /\ Raise("Exception", "reproject")
  /\ UNCHANGED <<args, server, source, zoom, resolution, grid, futures, consumed,
                 pending, bigim, base_size, printed, img>>

\* image_to_cog(output, output), lines 3882-3924.
ImageToCog ==
  /\ pc = "cog"
  /\ post' = [post EXCEPT !.cog = @ + 1]
  /\ \E ok \in BOOLEAN :
       IF ok
         THEN pc' = "returned" /\ UNCHANGED <<err, file>>
         ELSE /\ file' = [file EXCEPT !.failed = Append(@, "cog")]
              /\ Raise("Exception", "cog")
  /\ UNCHANGED <<args, server, source, zoom, resolution, grid, futures, consumed,
                 pending, bigim, base_size, printed, img>>

\* ----------------------------------------------------------- fetch workers

\* A worker takes the next task from the work queue and get_tile issues its
\* first request (lines 9702-9706).
StartFetch ==
  /\ WorkerAvailable(futures)
  /\ QueueHead(futures) # 0
  /\ futures' = [futures EXCEPT ![QueueHead(futures)].st = "running",
                                ![QueueHead(futures)].tries = 1]
  /\ UNCHANGED <<args, server, pc, err, source, zoom, resolution, grid, consumed,
                 pending, bigim, base_size, printed, img, file, post>>

\* What the request of a running get_tile can yield.
Outcomes(fut, srv) == IF UrlIsValid(fut.url) THEN srv ELSE {TransportError}

\* AfterRequest of a get_tile that gives the tile up as absent when its retries
\* are exhausted.
AfterRequestSwallow(fut, o) ==
  IF o.exc
    THEN IF RetryExhausted(fut.retry)
           THEN [fut EXCEPT !.st = "done", !.retry = @ - 1]
           ELSE [fut EXCEPT !.retry = @ - 1, !.tries = @ + 1]
    ELSE LET r == GetTileReturn(o)
         IN [fut EXCEPT !.st = "done", !.status = o.status, !.empty = IsNone(o.body),
                        !.raised = r.raise, !.exc = IF r.raise THEN "http" ELSE "",
                        !.value = r.value]

\* The future after the request in flight has ended with o (lines 9704-9717): an
\* exception is retried until retry reaches 0, a response ends the loop.
AfterRequest(fut, o) ==
  IF o.exc
    THEN IF RetryExhausted(fut.retry)
           THEN [fut EXCEPT !.st = "done", !.retry = @ - 1, !.raised = TRUE, !.exc = "transport"]
           ELSE [fut EXCEPT !.retry = @ - 1, !.tries = @ + 1]
    ELSE LET r == GetTileReturn(o)
         IN [fut EXCEPT !.st = "done", !.status = o.status, !.empty = IsNone(o.body),
                        !.raised = r.raise, !.exc = IF r.raise THEN "http" ELSE "",
                        !.value = r.value]

\* Attempt of a worker that pastes the tile it fetched into the canvas itself.
AttemptPasting(i) ==
  /\ futures[i].st = "running"
  /\ \E o \in Outcomes(futures[i], server) :
       LET fut == AfterRequest(futures[i], o)
           r == paste_tile(bigim, base_size, fut.value, grid.corners[i], grid.bbox)
       IN /\ futures' = [futures EXCEPT ![i] = fut]
          /\ bigim' = r.bigim
          /\ base_size' = r.base_size
  /\ UNCHANGED <<args, server, pc, err, source, zoom, resolution, grid, consumed,
                 pending, printed, img, file, post>>

\* Attempt of a get_tile that also saves the answer of the request on disk.
AttemptSaving(i) ==
  /\ futures[i].st = "running"
  /\ \E o \in Outcomes(futures[i], server) :
       futures' = [futures EXCEPT ![i] = AfterRequest(futures[i], o)]
  /\ file' = [file EXCEPT !.created = TRUE]
  /\ UNCHANGED <<args, server, pc, err, source, zoom, resolution, grid, consumed,
                 pending, bigim, base_size, printed, img, post>>

\* The request in flight of task i ends.
Attempt(i) ==
  /\ futures[i].st = "running"
  /\ \E o \in Outcomes(futures[i], server) :
       futures' = [futures EXCEPT ![i] = AfterRequest(futures[i], o)]
  /\ UNCHANGED <<args, server, pc, err, source, zoom, resolution, grid, consumed,
                 pending, bigim, base_size, printed, img, file, post>>

Next ==
  \/ ResolveSource
  \/ CheckBbox
  \/ CheckZoom
  \/ ComputeGrid
  \/ Submit
  \/ Composite
  \/ ExitPool
  \/ FinishPicture
  \/ CreateFile
  \/ WriteRaster
  \/ PostProcess
  \/ Reproject
  \/ ImageToCog
  \/ StartFetch
  \/ \E i \in 1..Len(futures) : Attempt(i)

Spec == Init /\ [][Next]_vars

\* A call on a grid of PoolColumns x 2 tiles at zoom 2, more than the pool has
\* workers, against a service that has every tile or answers 404.
PoolArgs ==
  Args({UrlTemplate}, {<<-180, 0, 90 * PoolColumns - 180, 4>>}, {Some(2)}, {None},
       {"EPSG:4326"}, {TRUE}, {FALSE})

InitPool == InitWith(PoolArgs, {Response(200, Some(ImgRGB)), Response(404, Some("Not Found"))})

SpecPool == InitPool /\ [][Next]_vars

\* Calls that give a resolution and no zoom: every fraction of the zoom-0
\* resolution, on a bbox of one or two tiles.
ResolutionFractions == {<<n, d>> : n \in 1..MaxRes, d \in 1..MaxRes}

ResArgs ==
  Args({UrlTemplate}, {<<-45, 0, 45, 1>>}, {None}, {Some(r) : r \in ResolutionFractions},
       {"EPSG:4326"}, {TRUE}, {FALSE})

InitRes == InitWith(ResArgs, {Response(200, Some(ImgRGB)), Response(404, Some("Not Found"))})

SpecRes == InitRes /\ [][Next]_vars

\* Calls at zoom 1 on every bbox with corners on a lattice of three longitudes
\* and three latitudes: grids of up to 2 x 2 tiles, with corners on and off tile
\* edges, against a service that has every tile.
GridLatJs == {-1, 0, 1}
GridBboxes == {<<w, s, e, n>> : w \in Lons, s \in GridLatJs, e \in Lons, n \in GridLatJs}

GridArgs ==
  Args({UrlTemplate}, GridBboxes, {Some(1)}, {None}, {"EPSG:4326"}, {TRUE}, {FALSE})

InitGrid == InitWith(GridArgs, {Response(200, Some(ImgRGB))})

SpecGrid == InitGrid /\ [][Next]_vars

\* A call on a grid of 2 x 2 tiles at zoom 2, the tiles (1, 1) to (2, 2), against a
\* service whose tiles differ in mode, in content and in size: opaque colour,
\* opaque black, half transparent, fully transparent, RGBA without transparency,
\* twice as large, or none.
ImgRGBAOpaque == Img("RGBA", FALSE, "full", TileSize)
ImgRGBBlack == Img("RGB", TRUE, "none", TileSize)
ImgRGBAClear == Img("RGBA", FALSE, "zero", TileSize)
ImgRGBLarge == Img("RGB", FALSE, "none", <<2 * TileSize[1], 2 * TileSize[2]>>)

ImageAnswers ==
  {Response(200, Some(ImgRGB)), Response(200, Some(ImgRGBBlack)),
   Response(200, Some(ImgRGBA)), Response(200, Some(ImgRGBAClear)),
   Response(200, Some(ImgRGBAOpaque)),
   Response(200, Some(ImgRGBLarge)), Response(404, Some("Not Found"))}

ImageArgs ==
  Args({UrlTemplate}, {<<-45, -1, 45, 1>>}, {Some(2)}, {None}, {"EPSG:4326"}, {TRUE}, {FALSE})

InitImages == InitWith(ImageArgs, ImageAnswers)

SpecImages == InitImages /\ [][Next]_vars

\* Calls at zoom 1 on every bbox with corners on the tile edges and on the tile
\* centres of the north-west tile, against a service whose tiles are 256 x 256
\* or 3 x 3 pixels: a tile centre falls on a pixel edge or on half a pixel.
CropLons == {-180, -90, 0}
CropLatJs == {0, 2, 4}
CropBboxes == {<<w, s, e, n>> : w \in CropLons, s \in CropLatJs, e \in CropLons, n \in CropLatJs}
ImgRGBOdd == Img("RGB", FALSE, "none", <<3, 3>>)

CropArgs ==
  Args({UrlTemplate}, CropBboxes, {Some(1)}, {None}, {"EPSG:4326"}, {TRUE}, {FALSE})

InitCrop == InitWith(CropArgs, {Response(200, Some(ImgRGB)), Response(200, Some(ImgRGBOdd))})

SpecCrop == InitCrop /\ [][Next]_vars

\* A call on two tiles against a service that answers with every status, each
\* with and without a body.
StatusAnswers ==
  {Response(200, Some(ImgRGB)), Response(200, None),
   Response(404, Some("Not Found")), Response(404, None),
   Response(403, Some("Forbidden")), Response(403, None),
   Response(500, Some("Internal Server Error")), Response(500, None),
   TransportError}

StatusArgs ==
  Args({UrlTemplate}, {<<-45, 0, 45, 1>>}, {Some(1)}, {None}, {"EPSG:4326"}, {TRUE}, {FALSE})

InitStatus == InitWith(StatusArgs, StatusAnswers)

SpecStatus == InitStatus /\ [][Next]_vars

\* The calls of PostArgs under fair scheduling: the calling thread goes on
\* whenever it can (a blocking fut.result() or shutdown returns once what it
\* waits for has happened), an idle worker takes a queued task, and every request
\* in flight ends, with a response or an exception, within its timeout of 60 s
\* (line 9706).
CallerNext ==
  \/ ResolveSource \/ CheckBbox \/ CheckZoom \/ ComputeGrid \/ Submit \/ Composite
  \/ ExitPool \/ FinishPicture \/ CreateFile \/ WriteRaster \/ PostProcess
  \/ Reproject \/ ImageToCog

InitLive == InitWith(PostArgs, Answers)

SpecLive ==
  /\ InitLive
  /\ [][Next]_vars
  /\ WF_vars(CallerNext)
  /\ WF_vars(StartFetch)
  /\ WF_vars(\E i \in 1..Len(futures) : Attempt(i))

\* ------------------------------------------------------------------ claims

Tiles == 1..Len(futures)
Requests == {i \in Tiles : futures[i].tries > 0}
AllSubmitted == pc \notin {"source", "bbox", "zoom", "grid", "submit"}
AllFetched == AllSubmitted /\ \A i \in Tiles : futures[i].st = "done"
\* The calling thread has left draw_tile's with block without an exception.
Writing == pc \in {"finish", "create", "write", "post", "reproject", "cog", "returned"}
\* The exceptions of the writer and of the post-processing.
DiskCauses == {"create", "write", "reproject", "cog"}

BothGiven == ~IsNone(args.zoom) /\ ~IsNone(args.resolution)
NeitherGiven == IsNone(args.zoom) /\ IsNone(args.resolution)

\* C1: with zoom and resolution both given, or neither, the call raises an input
\* error before any tile request is submitted and before the output file is
\* created; with exactly one given the other is derived and the call does not
\* raise on their account.
C1_ZoomXorResolution ==
  /\ (BothGiven \/ NeitherGiven) =>
       /\ pc \in {"source", "bbox", "zoom", "raised"}
       /\ pc = "raised" => err.type = "ValueError"
       /\ futures = <<>>
       /\ ~file.created
  /\ ~(BothGiven \/ NeitherGiven) =>
       /\ err.cause # "zoom"
       /\ (pc \notin {"source", "bbox", "zoom"} /\ err.type # "ValueError") =>
            /\ ~IsNone(zoom)
            /\ ~IsNone(resolution)
            /\ ~IsNone(args.zoom) => zoom = args.zoom
            /\ ~IsNone(args.resolution) => resolution = args.resolution

C1_Witness ==
  /\ BothGiven
  /\ pc = "raised"
  /\ err = [type |-> "ValueError", cause |-> "zoom"]

\* C2: for a bbox [west, south, east, north] with west >= east or south >= north
\* the call raises an input error before any tile request is submitted, and
\* creates no output file.
C2_InvalidBboxRefused ==
  (/\ Len(args.bbox) = 4
   /\ (args.bbox[1] >= args.bbox[3] \/ args.bbox[2] >= args.bbox[4])) =>
     /\ futures = <<>>
     /\ ~file.created
     /\ pc # "returned"

\* C3: a source that is a string but no built-in name, no URL and no basemap
\* name makes the call raise an input error before any request: no request is
\* attempted, let alone retried, with the unresolved name.
C3_UnknownSourceRefused ==
  args.source = "FooBar" =>
    /\ futures = <<>>
    /\ Requests = {}
    /\ pc = "raised" => err.type = "ValueError"

\* A tile the service reports absent: 404, or no body.
Absent(fut) ==
  fut.st = "done" /\ (fut.status = 404 \/ (~fut.raised /\ IsNone(fut.value)))
Fetched(fut) == fut.st = "done" /\ ~fut.raised /\ ~IsNone(fut.value)
\* Where paste_tile puts tile i of the grid.
OffsetOf(i) ==
  <<TileSize[1] * (grid.corners[i][1] - grid.bbox[1]),
    TileSize[2] * (grid.corners[i][2] - grid.bbox[2])>>
PastedAt(xy) ==
  ~IsNone(bigim) /\ \E n \in 1..Len(Val(bigim).pastes) : Val(bigim).pastes[n].xy = xy

\* C4: when some but not all tiles of the grid are absent (404 or an empty body)
\* and every other tile is fetched, the call does not raise on their account: no
\* exception leaves the compositing or finish_picture, the raster is written
\* when the call returns, and nothing is pasted for an absent tile, wherever in
\* the index order the absent tiles are.
C4_AbsentTilesTolerated ==
  (/\ AllFetched
   /\ \E i \in Tiles : Absent(futures[i])
   /\ \E i \in Tiles : Fetched(futures[i])
   /\ \A i \in Tiles : Absent(futures[i]) \/ Fetched(futures[i])) =>
     /\ pending = ""
     /\ pc = "raised" => err.cause \in DiskCauses
     /\ pc = "returned" => file.created /\ file.flushed
     /\ \A i \in Tiles : Absent(futures[i]) => ~PastedAt(OffsetOf(i))
     /\ Writing => \A i \in Tiles : Fetched(futures[i]) => PastedAt(OffsetOf(i))

C4_Witness ==
  /\ pc = "returned"
  /\ Len(futures) >= 2
  /\ Absent(futures[1])
  /\ futures[1].status = 404
  /\ Fetched(futures[2])
  /\ file.flushed
  /\ PastedAt(OffsetOf(2))
  /\ ~PastedAt(OffsetOf(1))

\* C5: when every tile of the grid is absent, so that no canvas is allocated,
\* the call raises and no output file is created.
C5_AllAbsentRaises ==
  (/\ AllFetched
   /\ Tiles # {}
   /\ \A i \in Tiles : Absent(futures[i])) =>
     /\ IsNone(bigim)
     /\ ~file.created
     /\ pc \in {"composite", "exitpool", "finish", "raised"}
     /\ pc = "raised" => err.type = "Exception"

C5_Witness ==
  /\ Len(futures) >= 2
  /\ \A i \in Tiles : Absent(futures[i])
  /\ pc = "raised"
  /\ err = [type |-> "Exception", cause |-> "finish_picture"]
  /\ ~file.created

\* A tile whose requests have all failed with a transport error.
RetriesExhausted(fut) == fut.st = "done" /\ fut.retry = 0

\* C6: when the fetch of some tile has failed with a transport error after its
\* retries, the call ends with an exception (that of the first failed tile in
\* index order): the output file is never created and neither reproject nor
\* image_to_cog runs.
C6_TransportErrorAborts ==
  (\E i \in Tiles : RetriesExhausted(futures[i])) =>
     /\ ~Writing
     /\ ~file.created
     /\ post.reproject = 0 /\ post.cog = 0
     /\ pc = "raised" => err.type = "Exception" /\ err.cause \in {"transport", "http"}

C6_Witness ==
  /\ pc = "raised"
  /\ err.cause = "transport"
  /\ Len(futures) >= 2
  /\ Fetched(futures[1])
  /\ RetriesExhausted(futures[2])
  /\ futures[2].tries = 3
  /\ ~IsNone(bigim)
  /\ ~file.created

\* The canvas and base_size after pasting the results of the futures 1..k in
\* index order.
RECURSIVE InIndexOrder(_)
InIndexOrder(k) ==
  IF k = 0 THEN [bigim |-> None, base_size |-> <<256, 256>>]
  ELSE LET before == InIndexOrder(k - 1)
       IN paste_tile(before.bigim, before.base_size, futures[k].value,
                     grid.corners[k], grid.bbox)

\* C7: the canvas (what is pasted where, in which order, its mode and size) is
\* decided by the index order of the tiles and what each fetch returned, under
\* every order in which the fetches complete: the loop takes the futures 1, 2,
\* ... and the canvas is the one those results give in that order.
C7_PlacementByIndex ==
  AllSubmitted =>
    LET pasted == IF pending # "" THEN Len(consumed) - 1 ELSE Len(consumed)
    IN /\ \A n \in 1..Len(consumed) : consumed[n] = n
       /\ bigim = InIndexOrder(pasted).bigim
       /\ base_size = InIndexOrder(pasted).base_size

\* The second tile (RGBA) has arrived before the first (RGB), and the canvas
\* was made from the first all the same.
C7_Witness ==
  /\ Len(futures) >= 2
  /\ futures[1].st = "running"
  /\ futures[1].tries = 2
  /\ Fetched(futures[2])
  /\ Val(futures[2].value).mode = "RGBA"
  /\ consumed = <<>>
  /\ IsNone(bigim)

C9_AtMostFiveInFlight ==
  /\ Cardinality({i \in Tiles : futures[i].st = "running"}) <= 5
  /\ \A i \in Tiles : futures[i].st = "queued" => futures[i].tries = 0

C9_Witness ==
  /\ Cardinality({i \in Tiles : futures[i].st = "running"}) = 5
  /\ \E i \in Tiles : futures[i].st = "queued"

\* C10: reproject and image_to_cog run only after the raster is written and
\* flushed; reproject runs once if crs is not EPSG:3857 in any case of the
\* letters, and never otherwise; image_to_cog runs once if to_cog, reprojected
\* or not, and never otherwise.
C10_PostProcessing ==
  LET native == args.crs \in {"EPSG:3857", "epsg:3857"}
  IN /\ (post.reproject > 0 \/ post.cog > 0 \/ pc \in {"post", "reproject", "cog", "returned"})
          => file.created /\ file.flushed
     /\ post.reproject <= 1 /\ post.cog <= 1
     /\ native => post.reproject = 0 /\ pc # "reproject"
     /\ ~args.to_cog => post.cog = 0 /\ pc # "cog"
     /\ post.cog = 1 /\ ~native => post.reproject = 1
     /\ pc = "returned" =>
          /\ post.reproject = IF native THEN 0 ELSE 1
          /\ post.cog = IF args.to_cog THEN 1 ELSE 0

C10_Witness ==
  /\ pc = "returned"
  /\ args.crs = "epsg:3857"
  /\ args.to_cog
  /\ post = [reproject |-> 0, cog |-> 1]

\* ---- C11

\* The steps after the failed one have not run on the file.
LaterStepsSkipped ==
  /\ Len(file.failed) = 1
  /\ file.failed[1] = "create" => ~file.flushed /\ post.reproject = 0 /\ post.cog = 0
  /\ file.failed[1] = "write" => ~file.flushed /\ post.reproject = 0 /\ post.cog = 0
  /\ file.failed[1] = "reproject" => post.cog = 0

\* C11: when the creation or the writing of the raster, the reprojection or the
\* conversion to a COG has failed, the call ends with an exception and never
\* returns normally, and no later step of writing or post-processing has run.
C11_DiskFailureRaises ==
  file.failed # <<>> =>
    /\ pc = "raised"
    /\ err = [type |-> "Exception", cause |-> file.failed[1]]
    /\ LaterStepsSkipped

\* The reprojection has run and failed on a call that asked for a COG.
C11_Witness ==
  /\ file.failed = <<"reproject">>
  /\ args.to_cog
  /\ file.flushed
  /\ pc = "raised"

\* ---- C12

\* Fractions <<numerator, denominator>> with positive denominators.
FracLeq(a, b) == a[1] * b[2] <= b[1] * a[2]
FracLess(a, b) == a[1] * b[2] < b[1] * a[2]

\* The call was given a resolution r with 0 < r <= 156543.03392804097 and no
\* zoom, and lines 9608-9609 have derived the zoom from it.
ZoomFromFineResolution ==
  /\ IsNone(args.zoom) /\ ~IsNone(args.resolution)
  /\ ~IsNone(zoom)
  /\ Val(args.resolution)[1] <= Val(args.resolution)[2]

\* C12 as stated: for 0 < r <= 156543.03392804097,
\* zoom_level_to_resolution(resolution_to_zoom_level(r)) is less than or equal
\* to r.
C12_RoundTripFinerOrEqual ==
  ZoomFromFineResolution =>
    FracLeq(zoom_level_to_resolution(Val(zoom)), Val(args.resolution))

\* C12, amended: for 0 < r <= 156543.03392804097,
\* zoom_level_to_resolution(resolution_to_zoom_level(r)) is greater than or equal
\* to r and less than 2 * r: the zoom is rounded down, so the resolution of the
\* zoom level is the requested one or coarser.
C12_RoundTripCoarserOrEqual ==
  ZoomFromFineResolution =>
    /\ FracLeq(Val(args.resolution), zoom_level_to_resolution(Val(zoom)))
    /\ FracLess(zoom_level_to_resolution(Val(zoom)),
                <<2 * Val(args.resolution)[1], Val(args.resolution)[2]>>)

\* A third of the zoom-0 resolution is asked for and zoom 1, half of it, is used.
C12_Witness ==
  /\ ZoomFromFineResolution
  /\ args.resolution = Some(<<1, 3>>)
  /\ zoom = Some(1)
  /\ zoom_level_to_resolution(Val(zoom)) = <<1, 2>>

\* ---- C13

\* The tile columns and rows of the claim, from the sorted fractional corners.
TileColumns == Floor(grid.x0, grid.xden)..(Ceil(grid.x1, grid.xden) - 1)
TileRows == Floor(grid.y0, grid.yden)..(Ceil(grid.y1, grid.yden) - 1)
TasksOf(x, y) == {i \in Tiles : futures[i].url = <<source, Val(zoom), x, y>>}
UrlsTellTilesApart == HasFields(source)

\* C13: once the tasks are submitted there is exactly one fetch task for every
\* tile (x, y) with floor(x0) <= x < ceil(x1) and floor(y0) <= y < ceil(y1) and no
\* other task, (ceil(x1) - floor(x0)) * (ceil(y1) - floor(y0)) tasks in all, and
\* the URL of the task of (x, y) is the template with z, x and y filled in.  (A
\* source without fields yields the same URL for every tile: its tasks are
\* counted, and told apart only where the URLs differ.)
C13_OneTaskPerTile ==
  (AllSubmitted /\ grid # NoGrid) =>
    /\ Len(futures) = (Ceil(grid.x1, grid.xden) - Floor(grid.x0, grid.xden))
                        * (Ceil(grid.y1, grid.yden) - Floor(grid.y0, grid.yden))
    /\ UrlsTellTilesApart =>
         /\ \A x \in TileColumns : \A y \in TileRows : Cardinality(TasksOf(x, y)) = 1
         /\ \A i \in Tiles : \E x \in TileColumns : \E y \in TileRows : i \in TasksOf(x, y)
    /\ \A i \in Tiles : \E x \in TileColumns : \E y \in TileRows :
         futures[i].url = Format(source, Val(zoom), x, y)

\* A grid of 2 x 2 tiles whose west and north corners lie inside a tile.
C13_Witness ==
  /\ AllSubmitted
  /\ Len(futures) = 4
  /\ grid.x0 % grid.xden # 0
  /\ grid.y0 % grid.yden # 0
  /\ Cardinality(TileColumns) = 2 /\ Cardinality(TileRows) = 2

\* ---- C14

\* The Web Mercator position the geotransform gt gives to the pixel corner
\* (px, py), as the fractions <<numerator, denominator>> of x and y: the origin
\* plus px pixel widths, the origin minus py pixel heights.
PixelToWorld(gt, px, py) ==
  <<(<<gt.x * gt.pwidth[2] + px * gt.pwidth[1], gt.pwidth[2]>>),
    (<<gt.y * gt.pheight[2] - py * gt.pheight[1], gt.pheight[2]>>)>>

FracEq(a, b) == a[1] * b[2] = b[1] * a[2]

\* The corners of the rectangle the requested bbox [west, south, east, north]
\* spans, in Web Mercator.
WestX == Min(from4326_to3857(args.bbox[2], args.bbox[1])[1],
             from4326_to3857(args.bbox[4], args.bbox[3])[1])
EastX == Max(from4326_to3857(args.bbox[2], args.bbox[1])[1],
             from4326_to3857(args.bbox[4], args.bbox[3])[1])
SouthY == Min(from4326_to3857(args.bbox[2], args.bbox[1])[2],
              from4326_to3857(args.bbox[4], args.bbox[3])[2])
NorthY == Max(from4326_to3857(args.bbox[2], args.bbox[1])[2],
              from4326_to3857(args.bbox[4], args.bbox[3])[2])

BboxInOrder == args.bbox[1] < args.bbox[3] /\ args.bbox[2] < args.bbox[4]

\* C14: the geotransform written to the raster has no rotation, maps the pixel
\* (0, 0) to the north-west corner of the requested bbox and the pixel
\* (width, height) to its south-east corner, in Web Mercator.
C14_GeoTransformCorners ==
  ~IsNone(file.geotransform) =>
    LET gt == Val(file.geotransform)
        nw == PixelToWorld(gt, 0, 0)
        se == PixelToWorld(gt, file.size[1], file.size[2])
    IN /\ file.size[1] > 0 /\ file.size[2] > 0
       /\ FracEq(nw[1], <<WestX, 1>>) /\ FracEq(nw[2], <<NorthY, 1>>)
       /\ FracEq(se[1], <<EastX, 1>>) /\ FracEq(se[2], <<SouthY, 1>>)
       /\ BboxInOrder =>
            /\ gt.x = from4326_to3857(args.bbox[4], args.bbox[1])[1]
            /\ gt.y = from4326_to3857(args.bbox[4], args.bbox[1])[2]

\* A raster of a bbox wider than high has been written.
C14_Witness ==
  /\ ~IsNone(file.geotransform)
  /\ BboxInOrder
  /\ args.bbox = <<-45, 0, 45, 1>>
  /\ file.size = <<128, 64>>
  /\ Val(file.geotransform).pwidth = <<90, 128>>
  /\ Val(file.geotransform).pheight = <<45, 64>>

\* ---- C15

IsProgress(msg) == msg[1] = "Downloaded image"
Progress == SelectSeq(printed, IsProgress)
AfterProgress == SubSeq(printed, Len(Progress) + 1, Len(printed))

\* C15: with quiet false, the progress messages are the counts 1, 2, ... of M in
\* increasing order, the message with count k is printed only when the tiles 1..k
\* have finished downloading, all M of them are printed once the compositing loop
\* has ended, and the message that names the output comes last and only after
\* the raster has been written; with quiet true nothing is printed at all.
C15_Progress ==
  /\ args.quiet => printed = <<>>
  /\ ~args.quiet =>
       /\ \A k \in 1..Len(Progress) :
            /\ Progress[k] = <<"Downloaded image", k, Len(futures)>>
            /\ printed[k] = Progress[k]
            /\ \A i \in 1..k : futures[i].st = "done"
       /\ Len(Progress) <= Len(futures)
       /\ Writing => Len(Progress) = Len(futures)
       /\ AfterProgress \in {<<>>, <<(<<"Saving GeoTIFF. Please wait...">>)>>,
                             <<(<<"Saving GeoTIFF. Please wait...">>), (<<"Image saved to">>)>>}
       /\ Len(AfterProgress) = 2 => file.flushed
       /\ (file.flushed /\ pc # "write") => Len(AfterProgress) = 2

\* A call on three tiles has returned and has printed three counts and the
\* message that names the output.
C15_Witness ==
  /\ ~args.quiet
  /\ pc = "returned"
  /\ Len(futures) = 3
  /\ Len(Progress) = 3
  /\ printed[Len(printed)] = <<"Image saved to">>

\* ---- C16

\* The requests of task i that ended with an exception, and whether a request
\* of it ended with a response.
FailedAttempts(fut) == 3 - fut.retry
Responded(fut) == fut.st = "done" /\ fut.status # 0

RECURSIVE TotalRequests(_)
TotalRequests(n) == IF n = 0 THEN 0 ELSE futures[n].tries + TotalRequests(n - 1)

\* C16: get_tile requests a URL at most 3 times; every request but the first
\* follows a request that raised, the first response ends the loop, and the
\* exception leaves get_tile exactly when 3 requests in a row have raised.  The
\* budget is per tile: M tiles cause at most 3 * M requests.
C16_RetryBudget ==
  /\ \A i \in Tiles :
       LET fut == futures[i]
       IN /\ fut.tries <= 3
          /\ fut.st = "queued" => fut.tries = 0 /\ FailedAttempts(fut) = 0
          /\ fut.st = "running" => fut.tries = FailedAttempts(fut) + 1
          /\ Responded(fut) => fut.tries = FailedAttempts(fut) + 1 /\ fut.exc # "transport"
          /\ (fut.st = "done" /\ ~Responded(fut)) =>
               fut.raised /\ fut.exc = "transport" /\ fut.tries = 3
          /\ (fut.raised /\ fut.exc = "transport") <=>
               (fut.st = "done" /\ FailedAttempts(fut) = 3)
  /\ TotalRequests(Len(futures)) <= 3 * Len(futures)

\* Of two tiles, one was answered at its third request and the other has used
\* up its three requests.
C16_Witness ==
  /\ Len(futures) = 2
  /\ Responded(futures[1]) /\ futures[1].tries = 3 /\ FailedAttempts(futures[1]) = 2
  /\ futures[2].st = "done" /\ futures[2].raised /\ futures[2].exc = "transport"
  /\ TotalRequests(2) = 6

\* ---- C17

\* The tiles the compositing loop has decoded so far, and the first of them.
Decoded == {k \in 1..Len(consumed) : Fetched(futures[consumed[k]])}
FirstDecoded == CHOOSE k \in Decoded : \A j \in Decoded : k <= j
TileOf(k) == Val(futures[consumed[k]].value)
CompositingDone == Writing /\ Len(consumed) = Len(futures)

\* C17: when the first decoded tile is RGB the canvas starts as RGB, and when any
\* decoded tile, at any position, is RGBA, the canvas is RGBA by the time
\* compositing has finished.
C17_CanvasUpgradedToRGBA ==
  /\ (Decoded # {} /\ Decoded = {FirstDecoded} /\ TileOf(FirstDecoded).mode = "RGB") =>
       Val(bigim).mode = "RGB"
  /\ (CompositingDone /\ \E k \in Decoded : TileOf(k).mode = "RGBA") =>
       Val(bigim).mode = "RGBA"

\* ---- C18

\* Empty as the claim defines it: all-zero colour extrema, or fully transparent.
EmptyTile(im) == im.rgbZero \/ im.alpha = "zero"

\* Where paste_tile pastes the k-th consumed tile, and whether the canvas holds
\* a paste of it.
OwnOffset(k) ==
  <<TileOf(k).size[1] * (grid.corners[consumed[k]][1] - Floor(grid.x0, grid.xden)),
    TileOf(k).size[2] * (grid.corners[consumed[k]][2] - Floor(grid.y0, grid.yden))>>
IsPasteOf(p, k) == p.xy = OwnOffset(k) /\ p.im.size = TileOf(k).size
Pasted(k) ==
  /\ ~IsNone(bigim)
  /\ \E n \in 1..Len(Val(bigim).pastes) : IsPasteOf(Val(bigim).pastes[n], k)

\* C18: a decoded tile that is empty is never pasted, whatever its mode and the
\* mode of the canvas; only tiles that are not empty are pasted.
C18_EmptyTilesSkipped ==
  \A k \in Decoded : EmptyTile(TileOf(k)) => ~Pasted(k)

\* ---- C19

\* The decoded tiles all have the size of the first.
UniformTiles == \A k \in Decoded : TileOf(k).size = TileOf(FirstDecoded).size

\* The rectangles of two pastes share no pixel; a paste lies inside the canvas.
Disjoint(p, q) ==
  \/ p.xy[1] + p.im.size[1] <= q.xy[1] \/ q.xy[1] + q.im.size[1] <= p.xy[1]
  \/ p.xy[2] + p.im.size[2] <= q.xy[2] \/ q.xy[2] + q.im.size[2] <= p.xy[2]
Inside(p, canvas) ==
  /\ 0 <= p.xy[1] /\ p.xy[1] + p.im.size[1] <= canvas.size[1]
  /\ 0 <= p.xy[2] /\ p.xy[2] + p.im.size[2] <= canvas.size[2]

\* C19: every paste on the canvas is the paste of one decoded tile (x, y), at
\* ((x - floor(x0)) * tile width, (y - floor(y0)) * tile height), and no tile is
\* pasted twice; when the tiles are of one size, the pastes of different tiles do
\* not overlap and lie inside the canvas.
C19_PasteOffsets ==
  ~IsNone(bigim) =>
    LET canvas == Val(bigim)
        ps == canvas.pastes
    IN /\ \A n \in 1..Len(ps) : \E k \in Decoded : IsPasteOf(ps[n], k)
       /\ \A k \in Decoded : Cardinality({n \in 1..Len(ps) : IsPasteOf(ps[n], k)}) <= 1
       /\ UniformTiles =>
            /\ \A n \in 1..Len(ps) : Inside(ps[n], canvas)
            /\ \A n \in 1..Len(ps) : \A m \in 1..Len(ps) : n # m => Disjoint(ps[n], ps[m])

\* The four tiles (1, 1) to (2, 2), of one size, are all pasted.
C19_Witness ==
  /\ ~IsNone(bigim)
  /\ UniformTiles
  /\ Len(Val(bigim).pastes) = 4
  /\ grid.bbox = <<1, 1, 3, 3>>
  /\ {Val(bigim).pastes[n].xy : n \in 1..4} = {<<0, 0>>, <<0, 256>>, <<256, 0>>, <<256, 256>>}

\* ---- C20

\* C20: the canvas is unallocated until the first tile that is not absent, in
\* index order, is decoded; from then on its size is (tile width * grid width,
\* tile height * grid height) for the size of that tile, and base_size is that
\* size, whatever the sizes of the tiles decoded later.
C20_CanvasAllocatedOnce ==
  /\ IsNone(bigim) <=> Decoded = {}
  /\ ~IsNone(bigim) =>
       /\ Val(bigim).size = <<TileOf(FirstDecoded).size[1] * Cardinality(TileColumns),
                               TileOf(FirstDecoded).size[2] * Cardinality(TileRows)>>
       /\ Val(bigim).mode = (IF TileOf(FirstDecoded).mode = "RGB" THEN "RGB" ELSE "RGBA")
       /\ base_size = TileOf(FirstDecoded).size

\* The first tile was absent, the canvas was sized by the second tile, and a
\* tile twice as large was decoded after it.
C20_Witness ==
  /\ Len(consumed) = 4
  /\ Absent(futures[1])
  /\ FirstDecoded = 2
  /\ TileOf(2).size = TileSize
  /\ TileOf(4).size = <<512, 512>>
  /\ Val(bigim).size = <<512, 512>>

\* ---- C21

\* The crop window of the claim for tiles of size ts: left, top, width, height.
CropWindow(ts) ==
  <<Round(ts[1] * (grid.x0 - Floor(grid.x0, grid.xden) * grid.xden), grid.xden),
    Round(ts[2] * (grid.y0 - Floor(grid.y0, grid.yden) * grid.yden), grid.yden),
    Round(ts[1] * (grid.x1 - grid.x0), grid.xden),
    Round(ts[2] * (grid.y1 - grid.y0), grid.yden)>>

\* C21: the image is the canvas cropped to the window with top-left
\* (round(tile_width * (x0 - floor(x0))), round(tile_height * (y0 - floor(y0))))
\* and size (round(tile_width * (x1 - x0)), round(tile_height * (y1 - y0))), and
\* for every bbox this window lies inside the canvas.
C21_CropInsideCanvas ==
  ~IsNone(img) =>
    LET w == CropWindow(TileOf(FirstDecoded).size)
        box == Val(img).box
        canvas == Val(bigim)
    IN /\ box = <<w[1], w[2], w[1] + w[3], w[2] + w[4]>>
       /\ Val(img).size = <<w[3], w[4]>>
       /\ 0 <= box[1] /\ box[3] <= canvas.size[1]
       /\ 0 <= box[2] /\ box[4] <= canvas.size[2]

\* ---- C22

\* The crop of the canvas is RGBA with an alpha band of 255 everywhere.
CropIsOpaqueRGBA ==
  /\ Val(bigim).mode = "RGBA"
  /\ AlphaIn(Val(bigim), Val(img).box) = {"full"}

\* C22: the image to write is RGB when the crop is RGBA with alpha 255
\* everywhere, and has the mode of the crop otherwise; the raster is created
\* with 3 bands for an RGB image and 4 for an RGBA one.
C22_OpaqueDowngrade ==
  ~IsNone(img) =>
    /\ Val(img).mode = (IF CropIsOpaqueRGBA THEN "RGB" ELSE Val(bigim).mode)
    /\ file.created => file.bands = (IF Val(img).mode = "RGB" THEN 3 ELSE 4)

\* An RGBA canvas without transparency in the window has been written as a
\* raster of 3 bands.
C22_Witness ==
  /\ ~IsNone(img)
  /\ Val(bigim).mode = "RGBA"
  /\ Val(img).mode = "RGB"
  /\ file.created /\ file.bands = 3

\* ---- C23

\* floor(log2(d / n)) for the resolution n/d of the zoom-0 resolution: the
\* largest k with 2^k <= d/n, which is negative when n > d.
MathFloorLog2(r) ==
  IF r[2] >= r[1] THEN FloorLog2(r[1], r[2])
  ELSE -(FloorLog2(r[2], r[1]) + (IF Pow2(FloorLog2(r[2], r[1])) * r[2] = r[1] THEN 0 ELSE 1))

\* The call was given a resolution and no zoom, and lines 9608-9609 have
\* derived the zoom from it.
ZoomFromResolution == IsNone(args.zoom) /\ ~IsNone(args.resolution) /\ ~IsNone(zoom)

\* C23: when only a resolution is given, the zoom used for the tile requests is
\* floor(log2(156543.03392804097 / resolution)) for every positive resolution,
\* also for those coarser than the zoom-0 resolution, and it is never negative.
C23_ZoomIsFloorAndNonNegative ==
  ZoomFromResolution =>
    /\ Val(zoom) = MathFloorLog2(Val(args.resolution))
    /\ Val(zoom) >= 0
    /\ \A i \in Tiles : futures[i].url[2] = Val(zoom)

\* ---- C24

\* C24: nothing is written to disk while tiles are fetched: as long as a
\* submitted fetch is queued or in flight the output file is untouched, in every
\* interleaving, and the file is created only after the last fetch has finished.
C24_NoDiskWriteWhileFetching ==
  /\ file # NoFile => AllFetched
  /\ ~AllFetched => file = NoFile /\ IsNone(img) /\ post = [reproject |-> 0, cog |-> 0]

\* The file has been created after the fetches of three tiles, one of which
\* needed three requests.
C24_Witness ==
  /\ file.created
  /\ Len(futures) = 3
  /\ AllFetched
  /\ futures[3].tries = 3

\* ---- C25

\* A step of the thread that called map_tiles_to_geotiff: it moves on in the
\* code or takes the result of one more future, and no future changes.
CallerStep == (pc' # pc \/ consumed' # consumed) /\ futures' = futures

\* C25: the canvas, base_size and the cropped image are allocated, pasted into
\* and cropped by steps of the calling thread only; a step of a fetch worker
\* leaves them as they are, so no two changes of the canvas interleave.
C25_CanvasOwnedByCaller ==
  [][(bigim' # bigim \/ base_size' # base_size \/ img' # img) => CallerStep]_vars

\* The canvas holds a paste while the fetch of a later tile is in flight.
C25_Witness ==
  /\ ~IsNone(bigim)
  /\ Len(Val(bigim).pastes) > 0
  /\ \E i \in Tiles : futures[i].st = "running"

\* ---- C26

\* C26: the tags of the written raster are the zoom of the tile requests and
\* the resolution of that zoom, 156543.03392804097 / 2^ZOOM_LEVEL, whichever
\* of zoom and resolution the caller gave.
C26_TagsConsistent ==
  file.flushed =>
    /\ file.zoom_level = zoom
    /\ \A i \in Tiles : futures[i].url[2] = Val(file.zoom_level)
    /\ FracEq(Val(file.resolution_m), zoom_level_to_resolution(Val(file.zoom_level)))

\* ---- C27

IsHttpError(status) == status >= 400 /\ status # 404

\* C27 as stated: a tile is absent only when the status is 404 or the response
\* is a success with an empty body; any other HTTP error status, with or without
\* a body, makes get_tile raise and the call fail, and is not retried.
C27_ErrorStatusNeverAbsent ==
  \A i \in Tiles :
    Responded(futures[i]) =>
      /\ (~futures[i].raised /\ IsNone(futures[i].value)) =>
           (futures[i].status = 404 \/ (futures[i].status < 400 /\ futures[i].empty))
      /\ IsHttpError(futures[i].status) =>
           /\ futures[i].raised
           /\ pc # "returned"
           /\ futures[i].tries = FailedAttempts(futures[i]) + 1

\* C27, amended: a tile is absent exactly when the status is 404 or the body is
\* empty, whatever the status; a response with another HTTP error status and a
\* body makes get_tile raise and the call fail; no response is retried.
C27_AbsentIffNotFoundOrEmptyBody ==
  \A i \in Tiles :
    Responded(futures[i]) =>
      /\ (~futures[i].raised /\ IsNone(futures[i].value)) <=>
           (futures[i].status = 404 \/ futures[i].empty)
      /\ futures[i].raised <=> (IsHttpError(futures[i].status) /\ ~futures[i].empty)
      /\ futures[i].raised => futures[i].exc = "http" /\ pc # "returned" /\ ~file.created
      /\ futures[i].tries = FailedAttempts(futures[i]) + 1

\* The call has returned although a tile was answered with 500 and no body.
C27_Witness ==
  /\ pc = "returned"
  /\ \E i \in Tiles :
       /\ futures[i].status = 500 /\ futures[i].empty
       /\ ~futures[i].raised /\ IsNone(futures[i].value)
  /\ file.flushed

\* ---- C28

\* The exception of a failed fetch is on its way out of the pool, or has
\* reached the caller.
FetchFailureSeen == pending # ""
FetchFailureRaised == pc = "raised" /\ err.cause \in {"transport", "http"}
FailedTile == consumed[Len(consumed)]

\* C28: nothing is cancelled when a fetch fails.  The compositing loop stops at
\* the failed tile, so no later tile is taken or pasted; when the exception has
\* reached the caller, every submitted task has run to its end, the later ones
\* included.
C28_NoCancellation ==
  /\ FetchFailureSeen =>
       /\ futures[FailedTile].raised
       /\ consumed = [k \in 1..FailedTile |-> k]
       /\ \A i \in Tiles : i >= FailedTile => ~PastedAt(OffsetOf(i))
       /\ pc \in {"exitpool", "raised"}
  /\ FetchFailureRaised =>
       /\ FetchFailureSeen
       /\ Len(futures) = Len(grid.corners)
       /\ \A i \in Tiles : futures[i].st = "done" /\ futures[i].tries >= 1

\* The first of three tiles has failed; the other two were fetched all the
\* same, and the canvas was never allocated.
C28_Witness ==
  /\ FetchFailureRaised
  /\ Len(futures) = 3
  /\ FailedTile = 1
  /\ Fetched(futures[2]) /\ Fetched(futures[3])
  /\ IsNone(bigim)

\* ---- C29

\* The call has ended, by returning or by raising, and no task is left over.
Terminated ==
  /\ pc \in {"returned", "raised"}
  /\ \A i \in Tiles : futures[i].st = "done"

\* C29: when every request ends within its timeout, every call on a finite
\* grid ends: it returns after writing and post-processing, or it raises.  The
\* retry loop of get_tile and the wait for a fetch result both come to an end.
C29_Terminates == <>[]Terminated

\* The call has returned after both tiles were answered at their third request.
C29_Witness ==
  /\ pc = "returned"
  /\ Len(futures) = 2
  /\ \A i \in Tiles : futures[i].tries = 3 /\ Responded(futures[i])

\* ---- C30

\* The grid is derived and has no tile: floor(x0) = ceil(x1) or floor(y0) = ceil(y1).
ZeroGrid ==
  /\ pc \notin {"source", "bbox", "zoom", "grid"}
  /\ ~(pc = "raised" /\ err.type = "ValueError")
  /\ \/ Floor(grid.x0, grid.xden) = Ceil(grid.x1, grid.xden)
     \/ Floor(grid.y0, grid.yden) = Ceil(grid.y1, grid.yden)

\* C30: with a grid of zero tiles the call issues no tile request, creates no
\* output file and does not return: it goes straight to finish_picture, which
\* raises, and the call ends with that exception.
C30_ZeroGridFailsFast ==
  ZeroGrid =>
    /\ futures = <<>>
    /\ file = NoFile
    /\ post = [reproject |-> 0, cog |-> 0]
    /\ pc \in {"submit", "composite", "exitpool", "finish", "raised"}
    /\ pc = "raised" => err = [type |-> "Exception", cause |-> "finish_picture"]

\* A bbox on one meridian that is a tile edge: the call has raised.
C30_Witness ==
  /\ ZeroGrid
  /\ args.bbox[1] = args.bbox[3]
  /\ args.bbox[2] < args.bbox[4]
  /\ pc = "raised"
  /\ err.cause = "finish_picture"

====
